---- MODULE Spec2Model ----
(***************************************************************************)
(* Model of src/app.py: the personal budget tracker that keeps two tables, *)
(* transactions.csv and budgets.csv, as CSV files in one Google Drive      *)
(* folder and rewrites a whole file on every mutation.                     *)
(*                                                                         *)
(* A Drive folder is a sequence of files per name (the position is the     *)
(* file id; the program never deletes a file). A file is the sequence of   *)
(* its CSV data rows, the header line left implicit. A DataFrame is the    *)
(* sequence of its rows. Text cells are strings; a date string DD/MM/YYYY  *)
(* is the tuple <<d, m, y>>, a month string YYYY-MM the tuple <<y, m>>, a  *)
(* Timestamp the record [y, m, d]; amounts are whole rupees.               *)
(***************************************************************************)
EXTENDS Integers, Sequences, FiniteSets, TLC

VARIABLES
    txFiles,    \* Drive: contents of the files named transactions.csv
    budFiles,   \* Drive: contents of the files named budgets.csv
    call,       \* per caller: position in the running function and its locals
    hist,       \* per caller: what the running call has done so far
    txVer,      \* number of writes made to transactions.csv files so far
    started,    \* number of calls started so far
    calc        \* input and output of calculate_remaining

vars == <<txFiles, budFiles, call, hist, txVer, started, calc>>

(***************************** bounds **************************************)
MaxOps == 2

Callers == {"c1", "c2"}

(***************************** values **************************************)
None == "<None>"
NaN == "<NaN>"

Today == <<5, 5, 2024>>
GroupNames == {"Goa"}

Tx(date, amount, category, description, mode, group) ==
    [Date |-> date, Amount |-> amount, Category |-> category,
     Description |-> description, Mode |-> mode, GroupName |-> group]

\* what the "Add Transaction" form submits (lines 258-269): a date, an
\* amount, a category, a description that may be left empty or be any text
\* the user types ("NA" for "not applicable" is one), a mode, and a group
\* or None
FormRows ==
    {Tx(<<3, 5, 2024>>, 300, "Food", "lunch", "UPI", None),
     Tx(<<4, 2, 2024>>, 300, "Food", "", "UPI", None),
     Tx(<<3, 5, 2024>>, 120, "Transport", "NA", "Cash", None),
     Tx(<<4, 2, 2024>>, 120, "Transport", "bus", "Cash", "Goa")}

\* the row the "Create Group" button saves (line 280)
GroupMarker(name) ==
    Tx(Today, 0, "Others", "__GROUP_CREATED__:" \o name, "System", name)

NoRow == Tx(Today, 0, "", "", "", "")

Budget(month, category, budget) ==
    [Month |-> month, Category |-> category, Budget |-> budget]

BudgetInputs ==
    { Budget(<<2024, 5>>, c, b) : c \in {"Food", "Transport"}, b \in {100, 200} }

NoBudget == Budget(<<0, 0>>, "", 0)

(************************ conversions (pandas) *****************************)
\* pd.to_datetime(s, dayfirst=True) of a DD/MM/YYYY string (line 108)
to_datetime(s) == [y |-> s[3], m |-> s[2], d |-> s[1]]

\* Timestamp.strftime("%d/%m/%Y") (line 110)
strftime(t) == <<t.d, t.m, t.y>>

\* the order of Timestamps, as the number of a day
DayNumber(t) == (t.y * 12 + t.m) * 31 + t.d

\* the strings pd.read_csv reads as a missing value (its default na_values)
NaTokens ==
    {"", "#N/A", "#N/A N/A", "#NA", "-1.#IND", "-1.#QNAN", "-NaN", "-nan",
     "1.#IND", "1.#QNAN", "<NA>", "N/A", "NA", "NULL", "NaN", "None", "n/a",
     "nan", "null"}

\* DataFrame.to_csv of one text cell: a missing value is written as the
\* empty field (na_rep = ""), and so is the empty string
to_csv_cell(v) == IF v \in {None, NaN} THEN "" ELSE v

\* pd.read_csv of one text field
read_csv_cell(s) == IF s \in NaTokens THEN NaN ELSE s

to_csv_row(r) ==
    [Date |-> r.Date, Amount |-> r.Amount,
     Category |-> to_csv_cell(r.Category),
     Description |-> to_csv_cell(r.Description),
     Mode |-> to_csv_cell(r.Mode),
     GroupName |-> to_csv_cell(r.GroupName)]

read_csv_row(r) ==
    [Date |-> r.Date, Amount |-> r.Amount,
     Category |-> read_csv_cell(r.Category),
     Description |-> read_csv_cell(r.Description),
     Mode |-> read_csv_cell(r.Mode),
     GroupName |-> read_csv_cell(r.GroupName)]

\* df.to_csv(buffer, index=False) (lines 117, 189)
to_csv(df) == [i \in 1..Len(df) |-> to_csv_row(df[i])]

\* pd.read_csv(data) of a transactions file (line 91)
read_csv(file) == [i \in 1..Len(file) |-> read_csv_row(file[i])]

\* df.to_csv(csv_buffer, index=False) of a budgets frame (line 189)
budgets_to_csv(df) ==
    [i \in 1..Len(df) |->
        [df[i] EXCEPT !.Category = to_csv_cell(df[i].Category)]]

RemoveAt(s, i) == [j \in 1..(Len(s) - 1) |-> IF j < i THEN s[j] ELSE s[j + 1]]

\* df.sort_values("Date", ascending=False) (line 109): every order of the
\* rows that is non-increasing by Date; the default sort is not stable, so
\* rows of one date come in any order
RECURSIVE sort_values(_)
sort_values(df) ==
    IF df = <<>> THEN {<<>>}
    ELSE LET top == {i \in 1..Len(df) :
                        \A j \in 1..Len(df) :
                            DayNumber(df[j].Date) <= DayNumber(df[i].Date)}
         IN UNION {{<<df[i]>> \o rest : rest \in sort_values(RemoveAt(df, i))} :
                       i \in top}

\* lines 97-110 of save_transaction: append the new row, parse the dates,
\* sort, format the dates
ConcatSortFormat(df, new_row) ==
    LET all == Append(df, new_row)
        parsed == [i \in 1..Len(all) |->
                      [all[i] EXCEPT !.Date = to_datetime(all[i].Date)]]
    IN {[i \in 1..Len(s) |-> [s[i] EXCEPT !.Date = strftime(s[i].Date)]] :
            s \in sort_values(parsed)}

\* get_existing_groups (lines 218-225)
get_existing_groups(df) ==
    {df[i].GroupName : i \in 1..Len(df)} \ {NaN, None, ""}

\* lines 178-185 of save_budget: drop the rows of the key, append the new row
RECURSIVE DropKey(_, _, _)
DropKey(df, month, category) ==
    IF df = <<>> THEN <<>>
    ELSE LET rest == DropKey(Tail(df), month, category)
         IN IF Head(df).Month = month /\ Head(df).Category = category
            THEN rest ELSE <<Head(df)>> \o rest

Upsert(df, new_row) ==
    Append(DropKey(df, new_row.Month, new_row.Category), new_row)

(***************************** state ***************************************)
IdleCall ==
    [pc |-> "idle", op |-> "none", row |-> NoRow, bud |-> NoBudget,
     group |-> "", df |-> <<>>, file_id |-> 0]

\* what a call has done: loads and writes completed, whether a backend read
\* raised, the exception that ended it, the folder when it started, whether
\* another caller wrote during it, the table it loaded and whether a file
\* was found, the transactions version it loaded and the one it wrote, and
\* how the caller's call before this one ended
NoHist ==
    [loads |-> 0, writes |-> 0, writesAtLoad |-> 0, readFailed |-> FALSE,
     cause |-> "", preTx |-> <<>>, preBud |-> <<>>, interfered |-> FALSE,
     loaded |-> <<>>, found |-> FALSE, loadVer |-> 0, writeVer |-> 0,
     prev |-> [op |-> "none", bud |-> NoBudget, pc |-> "idle", cause |-> ""]]

Active(c) == call[c].pc \notin {"idle", "done", "failed"}

\* the steps that are a Drive request (files().list, get_media, create, update)
ReadPcs == {"lt", "st_list", "sb_id", "lb_id"}
WritePcs == {"st_upload", "lb_create", "sb_upload"}

\* another caller's call is under way while c writes
Interfere(c) ==
    [o \in Callers |->
        IF o # c /\ Active(o) THEN [hist[o] EXCEPT !.interfered = TRUE]
        ELSE hist[o]]

\* a caller starts a call when its last one is over
CanBegin(c) == ~Active(c) /\ started < MaxOps

\* the caller's frame at the first line of the function it calls
BeginCall(c, op, row, bud, group, pc) ==
    [call EXCEPT ![c] =
        [IdleCall EXCEPT !.pc = pc, !.op = op, !.row = row, !.bud = bud,
                         !.group = group]]

BeginHist(c) ==
    [hist EXCEPT ![c] =
        [NoHist EXCEPT !.preTx = txFiles, !.preBud = budFiles,
                       !.prev = [op |-> call[c].op, bud |-> call[c].bud,
                                 pc |-> call[c].pc, cause |-> hist[c].cause]]]

\* an upload that always creates a new file
UploadAlwaysCreate(files, file_id, content) == Append(files, content)

\* lines 126-135 and 194-203: update the file of the id found, or create a
\* new file of that name when none was found
Upload(files, file_id, content) ==
    IF file_id # 0 THEN [files EXCEPT ![file_id] = content]
    ELSE Append(files, content)

(************************* transactions ************************************)
\* "Save Transaction" of the form (lines 267-269) calls save_transaction
save_transaction(c) ==
    \E row \in FormRows :
        /\ CanBegin(c)
        /\ call' = BeginCall(c, "save_transaction", row, NoBudget, "", "lt")
        /\ hist' = BeginHist(c)
        /\ started' = started + 1
        /\ UNCHANGED <<txFiles, budFiles, txVer, calc>>

\* "Create Group" (lines 277-281) calls save_transaction with a marker row
CreateGroup(c) ==
    \E name \in GroupNames :
        /\ CanBegin(c)
        /\ call' = BeginCall(c, "save_transaction", GroupMarker(name),
                             NoBudget, "", "lt")
        /\ hist' = BeginHist(c)
        /\ started' = started + 1
        /\ UNCHANGED <<txFiles, budFiles, txVer, calc>>

\* a page that only loads the table (lines 251, 298, 346, 371, 467)
ViewTransactions(c) ==
    /\ CanBegin(c)
    /\ call' = BeginCall(c, "load_transactions", NoRow, NoBudget, "", "lt")
    /\ hist' = BeginHist(c)
    /\ started' = started + 1
    /\ UNCHANGED <<txFiles, budFiles, txVer, calc>>

\* where a call goes on when load_transactions has returned
AfterLoadTransactions(op) ==
    CASE op = "save_transaction" -> "st_list"
      [] op = "load_transactions" -> "done"
      [] OTHER -> "go"

\* load_transactions (lines 77-91): list the files named transactions.csv;
\* none: an empty frame; else download and parse files[0]. The list has no
\* orderBy, so files[0] is any of the files of that name.
load_transactions(c) ==
    /\ call[c].pc = "lt"
    /\ \E df \in (IF txFiles = <<>> THEN {<<>>}
                  ELSE {read_csv(txFiles[id]) : id \in 1..Len(txFiles)}) :
          /\ call' = [call EXCEPT
                        ![c].df = IF call[c].op = "load_transactions"
                                  THEN <<>> ELSE df,
                        ![c].pc = AfterLoadTransactions(call[c].op)]
          /\ hist' = [hist EXCEPT ![c].loads = @ + 1,
                                  ![c].writesAtLoad = hist[c].writes,
                                  ![c].loaded = df,
                                  ![c].found = (txFiles # <<>>),
                                  ![c].loadVer = txVer]
    /\ UNCHANGED <<txFiles, budFiles, txVer, started, calc>>

\* save_transaction, lines 97-124: build the sorted frame, then list the
\* files named transactions.csv
save_transaction_list(c) ==
    /\ call[c].pc = "st_list"
    /\ \E df \in ConcatSortFormat(call[c].df, call[c].row) :
       \E id \in (IF txFiles = <<>> THEN {0} ELSE 1..Len(txFiles)) :
          call' = [call EXCEPT ![c].df = df, ![c].file_id = id,
                               ![c].pc = "st_upload"]
    /\ UNCHANGED <<txFiles, budFiles, hist, txVer, started, calc>>

\* save_transaction, lines 126-135: update files[0], or create the file
save_transaction_upload(c) ==
    /\ call[c].pc = "st_upload"
    /\ txFiles' = Upload(txFiles, call[c].file_id, to_csv(call[c].df))
    /\ txVer' = txVer + 1
    /\ call' = [call EXCEPT ![c].pc = "done", ![c].df = <<>>, ![c].file_id = 0]
    /\ hist' = [Interfere(c) EXCEPT ![c].writes = @ + 1,
                                    ![c].writeVer = txVer + 1]
    /\ UNCHANGED <<budFiles, started, calc>>

\* "Remove group tag" and "Delete all transactions in group" of the Group
\* Overview page (lines 393-444) for the group chosen in its select box
GroupAction(c) ==
    \E op \in {"remove_group_tag", "delete_group"}, g \in GroupNames :
        /\ CanBegin(c)
        /\ call' = BeginCall(c, op, NoRow, NoBudget, g, "lt")
        /\ hist' = BeginHist(c)
        /\ started' = started + 1
        /\ UNCHANGED <<txFiles, budFiles, txVer, calc>>

\* Group Overview after its load (lines 396-444). The select box offers the
\* group only when the table has it (line 408); then line 411 reads
\* grp_df["Date_dt"], a column load_transactions never makes: KeyError,
\* before either button's handler (which reads the same column, lines 433
\* and 441, and writes the local file, lines 435 and 443, not Drive).
GroupOverview(c) ==
    /\ call[c].pc = "go"
    /\ IF call[c].group \in get_existing_groups(call[c].df)
       THEN /\ call' = [call EXCEPT ![c].pc = "failed", ![c].df = <<>>]
            /\ hist' = [hist EXCEPT ![c].cause = "KeyError"]
       ELSE /\ call' = [call EXCEPT ![c].pc = "done", ![c].df = <<>>]
            /\ hist' = hist
    /\ UNCHANGED <<txFiles, budFiles, txVer, started, calc>>

(*************************** budgets ***************************************)
\* "Save Budget" (lines 455-456) calls save_budget
save_budget(c) ==
    \E b \in BudgetInputs :
        /\ CanBegin(c)
        /\ call' = BeginCall(c, "save_budget", NoRow, b, "", "sb_id")
        /\ hist' = BeginHist(c)
        /\ started' = started + 1
        /\ UNCHANGED <<txFiles, budFiles, txVer, calc>>

\* a page that only loads the budgets (lines 460, 468)
ViewBudgets(c) ==
    /\ CanBegin(c)
    /\ call' = BeginCall(c, "load_budgets", NoRow, NoBudget, "", "lb_id")
    /\ hist' = BeginHist(c)
    /\ started' = started + 1
    /\ UNCHANGED <<txFiles, budFiles, txVer, calc>>

\* get_drive_file_id (lines 53-63): files[0]["id"] of the files of that
\* name, or None (0)
get_drive_file_id(files) ==
    IF files = <<>> THEN {0} ELSE 1..Len(files)

\* save_budget, line 173: file_id = get_drive_file_id(BUDGET_FILE), kept
\* for the upload
save_budget_file_id(c) ==
    /\ call[c].pc = "sb_id"
    /\ \E id \in get_drive_file_id(budFiles) :
          call' = [call EXCEPT ![c].file_id = id, ![c].pc = "lb_id"]
    /\ UNCHANGED <<txFiles, budFiles, hist, txVer, started, calc>>

\* load_budgets, lines 139-143: its own get_drive_file_id(BUDGET_FILE)
load_budgets(c) ==
    /\ call[c].pc = "lb_id"
    /\ \E id \in get_drive_file_id(budFiles) :
          call' = [call EXCEPT ![c].pc =
                      IF id = 0 THEN "lb_create" ELSE "lb_download"]
    /\ UNCHANGED <<txFiles, budFiles, hist, txVer, started, calc>>

\* where a call goes on when load_budgets has returned
AfterLoadBudgets(op) ==
    IF op = "save_budget" THEN "sb_upload" ELSE "done"

\* load_budgets, lines 143-155: no file: create an empty budgets.csv in
\* Drive and return the empty frame
load_budgets_create(c) ==
    /\ call[c].pc = "lb_create"
    /\ budFiles' = Append(budFiles, budgets_to_csv(<<>>))
    /\ call' = [call EXCEPT ![c].df = <<>>,
                            ![c].pc = AfterLoadBudgets(call[c].op)]
    /\ hist' = [Interfere(c) EXCEPT ![c].writes = @ + 1,
                                    ![c].loads = @ + 1,
                                    ![c].writesAtLoad = hist[c].writes + 1]
    /\ UNCHANGED <<txFiles, txVer, started, calc>>

\* load_budgets, lines 157-167: the file exists: line 160 names
\* MediaIoBaseDownload, which the module never imports (line 8 imports
\* MediaIoBaseUpload only): NameError, before any byte is downloaded
load_budgets_download(c) ==
    /\ call[c].pc = "lb_download"
    /\ call' = [call EXCEPT ![c].pc = "failed", ![c].file_id = 0]
    /\ hist' = [hist EXCEPT ![c].cause = "NameError"]
    /\ UNCHANGED <<txFiles, budFiles, txVer, started, calc>>

\* save_budget, lines 177-203: upsert the row, then update the file of the
\* id taken at line 173, or create a file when that id was None
save_budget_upload(c) ==
    /\ call[c].pc = "sb_upload"
    /\ LET df == Upsert(call[c].df, call[c].bud)
       IN /\ budFiles' = Upload(budFiles, call[c].file_id, budgets_to_csv(df))
          /\ call' = [call EXCEPT ![c].pc = "done", ![c].df = <<>>,
                                  ![c].file_id = 0]
    /\ hist' = [Interfere(c) EXCEPT ![c].writes = @ + 1]
    /\ UNCHANGED <<txFiles, txVer, started, calc>>

(*************************** the backend ***********************************)
\* a load_transactions that catches the exception of its Drive request and
\* returns an empty frame
BackendErrorSwallowed(c) ==
    /\ call[c].pc \in ReadPcs \cup WritePcs
    /\ IF call[c].pc = "lt"
       THEN /\ call' = [call EXCEPT ![c].df = <<>>,
                           ![c].pc = AfterLoadTransactions(call[c].op)]
            /\ hist' = [hist EXCEPT ![c].readFailed = TRUE,
                                    ![c].loads = @ + 1]
       ELSE /\ call' = [call EXCEPT ![c].pc = "failed", ![c].df = <<>>,
                                    ![c].file_id = 0]
            /\ hist' = [hist EXCEPT ![c].cause = "BackendUnavailable",
                                    ![c].readFailed = (call[c].pc \in ReadPcs)]
    /\ UNCHANGED <<txFiles, budFiles, txVer, started, calc>>

\* a Drive request raises (.execute() at lines 58, 81, 89, 123, 127-135,
\* 151-154, 195-203): no try/except anywhere, so the exception ends the
\* call where it is, with nothing written by the failed request
BackendUnavailable(c) ==
    /\ call[c].pc \in ReadPcs \cup WritePcs
    /\ call' = [call EXCEPT ![c].pc = "failed", ![c].df = <<>>,
                            ![c].file_id = 0]
    /\ hist' = [hist EXCEPT ![c].cause = "BackendUnavailable",
                            ![c].readFailed = (call[c].pc \in ReadPcs)]
    /\ UNCHANGED <<txFiles, budFiles, txVer, started, calc>>

(*********************** calculate_remaining *******************************)
MaxTx == 2
MaxBud == 2

\* a row of the transactions frame as calculate_remaining reads it
CalcTx(date_dt, category, amount) ==
    [Date_dt |-> date_dt, Category |-> category, Amount |-> amount]

CalcTxRows ==
    {CalcTx(t, c, a) :
        t \in {[y |-> 2024, m |-> 5, d |-> 3], [y |-> 2024, m |-> 2, d |-> 4]},
        c \in {"Food", "Transport"},
        a \in {300, 50}}

CalcBudgetRows ==
    {Budget(m, c, 1000) :
        m \in {<<2024, 5>>, <<2024, 2>>}, c \in {"Food", "Transport"}}

SeqsUpTo(S, n) == UNION {[1..k -> S] : k \in 0..n}

\* Series.dt.to_period("M").astype(str) (line 209): "YYYY-MM"
to_period_M(t) == <<t.y, t.m>>

RECURSIVE Filter(_, _)
Filter(s, keep) ==
    IF s = <<>> THEN <<>>
    ELSE IF Head(s) \in keep THEN <<Head(s)>> \o Filter(Tail(s), keep)
         ELSE Filter(Tail(s), keep)

RECURSIVE SumAmount(_)
SumAmount(s) == IF s = <<>> THEN 0 ELSE Head(s).Amount + SumAmount(Tail(s))

\* month_tx.groupby("Category")["Amount"].sum() (line 211): one entry per
\* category that occurs in month_tx
groupby_sum(month_tx) ==
    [c \in {month_tx[i].Category : i \in 1..Len(month_tx)} |->
        SumAmount(Filter(month_tx, {r \in CalcTxRows : r.Category = c}))]

\* pd.merge(month_budgets, spent, on="Category", how="inner")
merge_inner(month_budgets, spent) ==
    [i \in 1..Len(Filter(month_budgets,
                         {b \in CalcBudgetRows : b.Category \in DOMAIN spent})) |->
        LET b == Filter(month_budgets,
                        {x \in CalcBudgetRows : x.Category \in DOMAIN spent})[i]
        IN [Month |-> b.Month, Category |-> b.Category, Budget |-> b.Budget,
            Spent |-> <<spent[b.Category]>>]]

\* pd.merge(month_budgets, spent, on="Category", how="left") (line 213): the
\* rows of month_budgets in their order, each with the Spent of its
\* category, or a missing value (<<>>) when spent has no such category
merge_left(month_budgets, spent) ==
    [i \in 1..Len(month_budgets) |->
        LET b == month_budgets[i]
        IN [Month |-> b.Month, Category |-> b.Category, Budget |-> b.Budget,
            Spent |-> IF b.Category \in DOMAIN spent
                      THEN <<spent[b.Category]>> ELSE <<>>]]

\* .fillna(0) of a numeric cell (line 213)
fillna0(cell) == IF cell = <<>> THEN 0 ELSE cell[1]

\* calculate_remaining (lines 206-215)
calculate_remaining(month, transactions, budgets) ==
    LET month_tx == Filter(transactions,
                           {r \in CalcTxRows : to_period_M(r.Date_dt) = month})
        spent == groupby_sum(month_tx)
        month_budgets == Filter(budgets,
                                {b \in CalcBudgetRows : b.Month = month})
        summary == merge_left(month_budgets, spent)
    IN [i \in 1..Len(summary) |->
           [Month |-> summary[i].Month, Category |-> summary[i].Category,
            Budget |-> summary[i].Budget,
            Spent |-> fillna0(summary[i].Spent),
            Remaining |-> summary[i].Budget - fillna0(summary[i].Spent)]]

NoCalc == [month |-> <<0, 0>>, transactions |-> <<>>, budgets |-> <<>>,
           ran |-> FALSE, summary |-> <<>>]

\* "Show Summary" (lines 471-472) applies calculate_remaining
ShowSummary ==
    /\ ~calc.ran
    /\ calc' = [calc EXCEPT !.ran = TRUE,
                            !.summary = calculate_remaining(
                                calc.month, calc.transactions, calc.budgets)]
    /\ UNCHANGED <<txFiles, budFiles, call, hist, txVer, started>>

(************************* specification ***********************************)
\* transactions.csv before the first call: no file, a file of the header
\* line alone, or a file of rows in any order (a file put in the folder by
\* hand or by another version of the app)
OldRows ==
    {Tx(<<3, 5, 2024>>, 300, "Food", "lunch", "UPI", "Goa"),
     Tx(<<4, 2, 2024>>, 300, "Food", "tea", "UPI", "")}

InitTxFolders ==
    {<<>>, << <<>> >>}
    \cup {<< <<p[1], p[2]>> >> : p \in {q \in OldRows \X OldRows : q[1] # q[2]}}

InitBudFolders ==
    {<<>>, << <<>> >>, << <<Budget(<<2024, 5>>, "Food", 100)>> >>}

Init ==
    /\ txFiles \in InitTxFolders
    /\ budFiles \in InitBudFolders
    /\ call = [c \in Callers |-> IdleCall]
    /\ hist = [c \in Callers |-> NoHist]
    /\ txVer = 0
    /\ started = 0
    /\ calc = NoCalc

Step(c) ==
    \/ save_transaction(c)
    \/ CreateGroup(c)
    \/ ViewTransactions(c)
    \/ load_transactions(c)
    \/ save_transaction_list(c)
    \/ save_transaction_upload(c)
    \/ GroupAction(c)
    \/ GroupOverview(c)
    \/ save_budget(c)
    \/ ViewBudgets(c)
    \/ save_budget_file_id(c)
    \/ load_budgets(c)
    \/ load_budgets_create(c)
    \/ load_budgets_download(c)
    \/ save_budget_upload(c)
    \/ BackendUnavailable(c)

Next == \E c \in Callers : Step(c)

Spec == Init /\ [][Next]_vars

\* one caller alone
NextSingle == Step("c1")

SpecSingle == Init /\ [][NextSingle]_vars

\* two callers that run save_transaction and load_transactions at once
InitRace ==
    /\ Init
    /\ budFiles = <<>>

StepRace(c) ==
    \/ save_transaction(c)
    \/ CreateGroup(c)
    \/ ViewTransactions(c)
    \/ load_transactions(c)
    \/ save_transaction_list(c)
    \/ save_transaction_upload(c)
    \/ BackendUnavailable(c)

NextRace == \E c \in Callers : StepRace(c)

SpecRace == InitRace /\ [][NextRace]_vars

\* calculate_remaining on every month and every pair of small tables
InitCalc ==
    /\ txFiles = <<>>
    /\ budFiles = <<>>
    /\ call = [c \in Callers |-> IdleCall]
    /\ hist = [c \in Callers |-> NoHist]
    /\ txVer = 0
    /\ started = 0
    /\ \E m \in {<<2024, 5>>, <<2024, 2>>} :
       \E t \in SeqsUpTo(CalcTxRows, MaxTx) :
       \E b \in SeqsUpTo(CalcBudgetRows, MaxBud) :
          calc = [NoCalc EXCEPT !.month = m, !.transactions = t, !.budgets = b]

NextCalc == ShowSummary

SpecCalc == InitCalc /\ [][NextCalc]_vars

(***************************** claims **************************************)
\* what load_transactions would return now: the parse of any file named
\* transactions.csv, or the empty frame when there is none
LoadTransactionsResults ==
    IF txFiles = <<>> THEN {<<>>}
    ELSE {read_csv(txFiles[id]) : id \in 1..Len(txFiles)}

\* what load_budgets would return now: the empty frame when there is no
\* file; nothing when there is one, because it raises NameError
LoadBudgetsResults ==
    IF budFiles = <<>> THEN {<<>>} ELSE {}

Count(df, r) == Cardinality({i \in 1..Len(df) : df[i] = r})

IsMissing(v) == v \in {None, NaN}

SameCell(a, b) == a = b \/ (IsMissing(a) /\ IsMissing(b))

SameRow(a, b) ==
    /\ a.Date = b.Date
    /\ a.Amount = b.Amount
    /\ SameCell(a.Category, b.Category)
    /\ SameCell(a.Description, b.Description)
    /\ SameCell(a.Mode, b.Mode)
    /\ SameCell(a.GroupName, b.GroupName)

\* the day a DD/MM/YYYY string names
DayOf(s) == (s[3] * 12 + s[2]) * 31 + s[1]

NonIncreasingByDate(df) ==
    \A i \in 1..Len(df) : \A j \in i..Len(df) :
        DayOf(df[i].Date) >= DayOf(df[j].Date)

\* the call ended by itself: it returned, or it raised an exception of the
\* program's own and not one of the backend
Ended(c) ==
    /\ call[c].pc \in {"done", "failed"}
    /\ hist[c].cause # "BackendUnavailable"

\* the Group Overview action had a group of the table to act on
ActedOnGroup(c) ==
    /\ call[c].op \in {"remove_group_tag", "delete_group"}
    /\ Ended(c)
    /\ call[c].group \in get_existing_groups(hist[c].loaded)

\* C1: after a transaction mutation (a save_transaction, a remove-group-tag
\* or a delete-all-in-group) has ended, load_transactions returns rows in
\* non-increasing order of Date, whatever the order of the table before.
C1_SortedAfterAnyMutation ==
    \A c \in Callers :
        ( /\ Ended(c)
          /\ \/ call[c].op = "save_transaction"
             \/ ActedOnGroup(c) )
        => \A df \in LoadTransactionsResults : NonIncreasingByDate(df)

\* C2: after save_budget(m, c, v1) and then save_budget(m, c, v2) have
\* ended, load_budgets returns a table with exactly one row of key (m, c),
\* whose Budget is v2; and no budgets file ever has two rows of one key.
C2_BudgetUpsert ==
    /\ \A c \in Callers :
        ( /\ Ended(c)
          /\ call[c].op = "save_budget"
          /\ hist[c].prev.op = "save_budget"
          /\ hist[c].prev.pc \in {"done", "failed"}
          /\ hist[c].prev.cause # "BackendUnavailable"
          /\ hist[c].prev.bud.Month = call[c].bud.Month
          /\ hist[c].prev.bud.Category = call[c].bud.Category )
        => /\ LoadBudgetsResults # {}
           /\ \A df \in LoadBudgetsResults :
                 /\ Count(df, call[c].bud) = 1
                 /\ \A i \in 1..Len(df) :
                       ( /\ df[i].Month = call[c].bud.Month
                         /\ df[i].Category = call[c].bud.Category )
                       => df[i] = call[c].bud
    /\ \A id \in 1..Len(budFiles) :
          \A i, j \in 1..Len(budFiles[id]) :
              ( /\ budFiles[id][i].Month = budFiles[id][j].Month
                /\ budFiles[id][i].Category = budFiles[id][j].Category )
              => i = j

\* C3: after a save_transaction has returned, with no other writer during
\* it, load_transactions returns a table with a row equal to the saved one
\* on Date, Amount, Category, Description, Mode and GroupName.
C3_SaveLoadRoundTrip ==
    \A c \in Callers :
        ( /\ call[c].op = "save_transaction"
          /\ call[c].pc = "done"
          /\ ~hist[c].interfered )
        => \A df \in LoadTransactionsResults :
              \E i \in 1..Len(df) : SameRow(df[i], call[c].row)

\* the budget rows of month m, by position, and the k-th of them
BudgetRowsOf(budgets, m) == {i \in 1..Len(budgets) : budgets[i].Month = m}

KthOf(S, k) == CHOOSE i \in S : Cardinality({j \in S : j <= i}) = k

RECURSIVE SumOver(_, _)
SumOver(S, transactions) ==
    IF S = {} THEN 0
    ELSE LET i == CHOOSE x \in S : TRUE
         IN transactions[i].Amount + SumOver(S \ {i}, transactions)

\* the spending of category c in month m
SpentIn(transactions, m, c) ==
    SumOver({i \in 1..Len(transactions) :
                /\ transactions[i].Category = c
                /\ transactions[i].Date_dt.y = m[1]
                /\ transactions[i].Date_dt.m = m[2]}, transactions)

AsLoaded(row) == read_csv_row(to_csv_row(row))

\* callers a and b ran save_transaction at once: both loaded the same
\* version of the table, then a wrote, then b wrote, and nothing was
\* written since
Raced(a, b) ==
    /\ a # b
    /\ call[a].op = "save_transaction" /\ call[a].pc = "done"
    /\ call[b].op = "save_transaction" /\ call[b].pc = "done"
    /\ hist[a].loadVer = hist[b].loadVer
    /\ hist[a].writeVer = hist[a].loadVer + 1
    /\ hist[b].writeVer = hist[a].loadVer + 2
    /\ txVer = hist[b].writeVer

\* no save_transaction ends with an error other than the backend's own:
\* nothing detects a conflict
NoConflictError ==
    \A c \in Callers :
        call[c].op = "save_transaction"
        => hist[c].cause \in {"", "BackendUnavailable"}

C6_DeleteGroupDeletes ==
    \A c \in Callers :
        ( /\ call[c].op = "delete_group"
          /\ ActedOnGroup(c)
          /\ ~hist[c].interfered )
        => \A df \in LoadTransactionsResults :
              /\ \A i \in 1..Len(df) : df[i].GroupName # call[c].group
              /\ \A i \in 1..Len(hist[c].loaded) :
                    hist[c].loaded[i].GroupName # call[c].group
                    => Count(df, hist[c].loaded[i]) >= 1

\* C7: a save_transaction or save_budget that has returned made exactly one
\* full load of its table and then exactly one full write of it; a load
\* that has returned made no write.
C7_OneLoadThenOneWrite ==
    \A c \in Callers :
        call[c].pc = "done" =>
            /\ call[c].op \in {"save_transaction", "save_budget"}
               => /\ hist[c].loads = 1
                  /\ hist[c].writes = 1
                  /\ hist[c].writesAtLoad = 0
            /\ call[c].op \in {"load_transactions", "load_budgets"}
               => hist[c].writes = 0

\* C8: when a backend read raises during save_transaction or save_budget,
\* the call has failed with that error and goes no further, it has written
\* nothing, and (no other caller having written) both folders are as they
\* were when the call began.
C8_ReadFailureWritesNothing ==
    \A c \in Callers :
        ( /\ hist[c].readFailed
          /\ call[c].op \in {"save_transaction", "save_budget"} )
        => /\ call[c].pc = "failed"
           /\ hist[c].cause = "BackendUnavailable"
           /\ hist[c].writes = 0
           /\ ~hist[c].interfered
              => (txFiles = hist[c].preTx /\ budFiles = hist[c].preBud)

\* C8 witness: a save_transaction on a table with rows whose read raised.
C8_Witness ==
    \E c \in Callers :
        /\ hist[c].readFailed
        /\ call[c].op = "save_transaction"
        /\ call[c].pc = "failed"
        /\ txFiles # <<>>
        /\ txFiles[1] # <<>>

\* every file of a folder has no data row
NoRows(files) == \A id \in 1..Len(files) : files[id] = <<>>

\* C9: a load_transactions on a folder whose transactions.csv is missing or
\* has no data row returns the empty frame and does not fail; so does
\* load_budgets for budgets.csv.
C9_EmptyTableLoadsEmpty ==
    \A c \in Callers :
        /\ ( /\ call[c].op = "load_transactions"
             /\ Ended(c)
             /\ NoRows(hist[c].preTx) /\ ~hist[c].interfered )
           => (call[c].pc = "done" /\ hist[c].loaded = <<>>)
        /\ ( /\ call[c].op = "load_budgets"
             /\ Ended(c)
             /\ NoRows(hist[c].preBud) /\ ~hist[c].interfered )
           => call[c].pc = "done"

\* C10: a folder that starts with at most one transactions.csv and at most
\* one budgets.csv keeps at most one of each through any calls of a single
\* caller.
C10_OneFilePerName ==
    /\ Len(txFiles) <= 1
    /\ Len(budFiles) <= 1

RowsOf(df) == {df[i] : i \in 1..Len(df)}

\* as multisets of rows, after is before plus one copy of new
PlusOneRow(before, after, new) ==
    /\ Len(after) = Len(before) + 1
    /\ \A r \in RowsOf(before) \cup RowsOf(after) \cup {new} :
          Count(after, r) = Count(before, r) + (IF r = new THEN 1 ELSE 0)

\* caller c's save_transaction has returned after its upload, and nobody
\* else wrote meanwhile
SavedAlone(c) ==
    /\ call[c].op = "save_transaction"
    /\ call[c].pc = "done"
    /\ ~hist[c].interfered

\* the rows of transactions.csv when the call began (no file: no rows)
StoredBefore(c) ==
    IF hist[c].preTx = <<>> THEN <<>> ELSE hist[c].preTx[1]

\* C11: a successful save_transaction by a single caller changes the stored
\* Transactions table only by adding the new row: as multisets, the rows of
\* transactions.csv after the call are the rows before it plus the one new
\* row as to_csv writes it, no stored row lost, duplicated or changed in any
\* field, and the Budgets files are what they were.
C11_SaveAddsExactlyOneRow ==
    \A c \in Callers :
        SavedAlone(c) =>
            /\ Len(txFiles) = 1
            /\ PlusOneRow(StoredBefore(c), txFiles[1],
                          to_csv_row(call[c].row))
            /\ budFiles = hist[c].preBud

\* the same comparison on what load_transactions returns before and after
\* the call: the rows loaded before plus the new row as it loads
LoadedRowsPlusNewRow ==
    \A c \in Callers :
        SavedAlone(c) =>
            /\ Len(txFiles) = 1
            /\ PlusOneRow(read_csv(StoredBefore(c)), read_csv(txFiles[1]),
                          AsLoaded(call[c].row))
            /\ budFiles = hist[c].preBud

====
